---- MODULE Spec2Model ----
(***************************************************************************)
(* Classical orbital elements from a state vector: a model of              *)
(* orbital_elements/core.py (class ClassicalOrbitalElements) and of its    *)
(* callers, main-checkpoint.py and test/test.py.                           *)
(*                                                                         *)
(* Numbers.  The program computes in IEEE binary floating point            *)
(* (np.float64).  The model computes in the same arithmetic at a reduced   *)
(* width: a finite number is sign * m * 2^x with a mantissa m of MantBits  *)
(* bits, every operation rounds its exact result to the nearest such       *)
(* number, ties to even.  The exponent x is unbounded (no overflow, no     *)
(* underflow, no subnormals) and there is no negative zero.  NaN and the   *)
(* infinities are values of the arithmetic.                                *)
(*                                                                         *)
(* Angles.  np.degrees(np.arccos(c)) is kept as the value "acos" of its    *)
(* cosine c, and 360 - np.degrees(np.arccos(c)) as the value "racos" of c: *)
(* arccos is one-to-one from [-1, 1] onto [0, 180] degrees, so two angles  *)
(* are equal exactly when these values are.  acos of 1 is 0 degrees, acos  *)
(* of -1 is 180 degrees, racos of 1 is 360 degrees; racos of -1 is         *)
(* 360 - 180 = 180 degrees and is written acos of -1.                      *)
(*                                                                         *)
(* Vectors are triples <<x, y, z>>: index 1, 2, 3 for numpy's 0, 1, 2.     *)
(***************************************************************************)
EXTENDS Integers, Sequences, FiniteSets

(***************************************************************************)
(* Bounds of the model.                                                    *)
(***************************************************************************)
\* width of the mantissa of the model's floating point (np.float64 has 53)
MantBits == 6
\* calculate() calls explored in a run of Spec (one object, all the inputs)
MaxCalls == 1
\* calculate() calls explored in a run of Spec2 (two objects, fewer inputs)
MaxCalls2 == 2

(***************************************************************************)
(* Floating point values.                                                  *)
(***************************************************************************)
Fin(s, m, x) == [k |-> "fin", s |-> s, m |-> m, x |-> x]

Zero == Fin(1, 0, 0)

NaN == [k |-> "nan", s |-> 1, m |-> 0, x |-> 0]

Inf(s) == [k |-> "inf", s |-> s, m |-> 0, x |-> 0]

IsFin(a) == a.k = "fin"

IsZero(a) == a.k = "fin" /\ a.m = 0

RECURSIVE BitLen(_)
BitLen(n) == IF n = 0 THEN 0 ELSE 1 + BitLen(n \div 2)

\* s * M * 2^X (plus a little, when sticky) rounded to MantBits bits, to
\* nearest, ties to even, for M > 0 of b bits.  With sticky, b > MantBits.
RoundBits(s, M, X, sticky, b) ==
    IF b <= MantBits
    THEN Fin(s, M * 2^(MantBits - b), X - (MantBits - b))
    ELSE LET sh   == b - MantBits
             q    == M \div 2^sh
             rem  == M % 2^sh
             half == 2^(sh - 1)
             up   == rem > half \/ (rem = half /\ (sticky \/ q % 2 = 1))
             q2   == IF up THEN q + 1 ELSE q
         IN IF q2 = 2^MantBits
            THEN Fin(s, 2^(MantBits - 1), X + sh + 1)
            ELSE Fin(s, q2, X + sh)

Round(s, M, X, sticky) ==
    IF M = 0 THEN Zero ELSE RoundBits(s, M, X, sticky, BitLen(M))

FromInt(n) == IF n < 0 THEN Round(-1, -n, 0, FALSE) ELSE Round(1, n, 0, FALSE)

\* +-2^x
Pow2(s, x) == Round(s, 1, x, FALSE)

FNeg(a) == IF a.k = "nan" \/ IsZero(a) THEN a ELSE [a EXCEPT !.s = -a.s]

FAbs(a) == IF a.k = "nan" THEN a ELSE [a EXCEPT !.s = 1]

\* a + b, both finite
FAdd(a, b) ==
    IF a.m = 0 THEN b
    ELSE IF b.m = 0 THEN a
    ELSE LET hi == IF a.x >= b.x THEN a ELSE b
             lo == IF a.x >= b.x THEN b ELSE a
             d  == hi.x - lo.x
         IN IF d > MantBits + 1
            THEN hi    \* lo is below a quarter of hi's last place
            ELSE LET sum == hi.s * hi.m * 2^d + lo.s * lo.m
                 IN IF sum < 0 THEN Round(-1, -sum, lo.x, FALSE)
                               ELSE Round(1, sum, lo.x, FALSE)

FSub(a, b) == FAdd(a, FNeg(b))

\* a * b, both finite
FMul(a, b) ==
    IF a.m = 0 \/ b.m = 0 THEN Zero
    ELSE LET prod == a.m * b.m     \* of 2 * MantBits bits, or one less
         IN RoundBits(a.s * b.s, prod, a.x + b.x, FALSE,
                      IF prod >= 2^(2 * MantBits - 1)
                      THEN 2 * MantBits ELSE 2 * MantBits - 1)

\* a / b as numpy divides: x/0 is an infinity, 0/0 is NaN (with a warning)
FDiv(a, b) ==
    IF a.k = "nan" \/ b.k = "nan" THEN NaN
    ELSE IF b.m = 0 THEN (IF a.m = 0 THEN NaN ELSE Inf(a.s))
    ELSE IF a.m = 0 THEN Zero
    ELSE LET num == a.m * 2^(MantBits + 1)
             q   == num \div b.m   \* of MantBits + 1 or MantBits + 2 bits
         IN RoundBits(a.s * b.s, q, a.x - b.x - (MantBits + 1), num % b.m # 0,
                      IF q >= 2^(MantBits + 1)
                      THEN MantBits + 2 ELSE MantBits + 1)

RECURSIVE ISqrtIter(_, _, _)
ISqrtIter(N, root, bit) ==
    IF bit = 0 THEN root
    ELSE IF (root + bit) * (root + bit) <= N
         THEN ISqrtIter(N, root + bit, bit \div 2)
         ELSE ISqrtIter(N, root, bit \div 2)

\* the integer part of the square root of N
ISqrt(N) == ISqrtIter(N, 0, 2^MantBits)

\* the square root of a >= 0, correctly rounded
FSqrt(a) ==
    IF a.m = 0 THEN Zero
    ELSE LET j    == IF (a.x - (MantBits + 1)) % 2 = 0
                     THEN MantBits + 1 ELSE MantBits + 2
             N    == a.m * 2^j
             root == ISqrt(N)
         IN \* N has 2 * MantBits + 1 or + 2 bits: root has MantBits + 1
            RoundBits(1, root, (a.x - j) \div 2, root * root # N, MantBits + 1)

\* a < b; false when either is NaN
FLt(a, b) ==
    IF a.k = "nan" \/ b.k = "nan" THEN FALSE
    ELSE IF a.k = "inf" THEN a.s = -1 /\ ~(b.k = "inf" /\ b.s = -1)
    ELSE IF b.k = "inf" THEN b.s = 1
    ELSE IF a.m = 0 THEN b.m # 0 /\ b.s = 1
    ELSE IF b.m = 0 THEN a.s = -1
    ELSE IF a.s # b.s THEN a.s = -1
    ELSE IF a.s = 1
         THEN a.x < b.x \/ (a.x = b.x /\ a.m < b.m)
         ELSE b.x < a.x \/ (a.x = b.x /\ b.m < a.m)

FGt(a, b) == FLt(b, a)

\* a <= b; false when either is NaN
FLe(a, b) == a.k # "nan" /\ b.k # "nan" /\ ~FLt(b, a)


One == FromInt(1)

Two == FromInt(2)

(***************************************************************************)
(* Angles (see the head of the module).                                    *)
(***************************************************************************)
\* np.arccos: NaN outside [-1, 1], else the angle in radians of that cosine
arccos(c) ==
    IF c.k # "fin" \/ FLt(One, FAbs(c)) THEN NaN ELSE [c EXCEPT !.k = "rad"]

\* np.clip(x, -1.0, 1.0): NaN stays NaN
clip(c) ==
    IF c.k = "nan" THEN c
    ELSE IF FLt(c, FNeg(One)) THEN FNeg(One)
    ELSE IF FLt(One, c) THEN One
    ELSE c

safe_arccos(c) == arccos(clip(c))

\* np.degrees
degrees(a) == IF a.k = "rad" THEN [a EXCEPT !.k = "acos"] ELSE a

\* 360 - a, for an angle a in degrees out of arccos
Sub360(a) ==
    IF a.k # "acos" THEN a
    ELSE IF a.s = -1 /\ a.m = One.m /\ a.x = One.x THEN a    \* 360 - 180
    ELSE [a EXCEPT !.k = "racos"]

IsAngle(a) == a.k \in {"acos", "racos"}

\* the angle is exactly 360 degrees: 360 - arccos(1)
Is360(a) == a.k = "racos" /\ a.s = 1 /\ a.m = One.m /\ a.x = One.x

\* neither NaN nor infinite
isfinite(a) == a.k \notin {"nan", "inf"}

(***************************************************************************)
(* Vector algebra, as numpy evaluates it on arrays of three floats.        *)
(***************************************************************************)
dot(a, b) == FAdd(FAdd(FMul(a[1], b[1]), FMul(a[2], b[2])), FMul(a[3], b[3]))

norm(a) == FSqrt(dot(a, a))

cross(a, b) ==
    << FSub(FMul(a[2], b[3]), FMul(a[3], b[2])),
       FSub(FMul(a[3], b[1]), FMul(a[1], b[3])),
       FSub(FMul(a[1], b[2]), FMul(a[2], b[1])) >>

k_hat == << Zero, Zero, One >>

scale(c, a) == << FMul(c, a[1]), FMul(c, a[2]), FMul(c, a[3]) >>

vsub(a, b) == << FSub(a[1], b[1]), FSub(a[2], b[2]), FSub(a[3], b[3]) >>

(***************************************************************************)
(* Thresholds: the literals of the source, rounded to the model's width.   *)
(***************************************************************************)
\* 1e-8, the eccentricity cutoff
ECC_TOL == FDiv(One, FromInt(100000000))

\* 1e-12, the energy cutoff
ENERGY_TOL == FDiv(One, FMul(FromInt(1000000), FromInt(1000000)))

\* np.allclose's default absolute tolerance, 1e-8 (its relative tolerance
\* multiplies the reference value, which is 0 here)
ATOL == FDiv(One, FromInt(100000000))

(***************************************************************************)
(* _validate_input                                                         *)
(***************************************************************************)
\* np.allclose(a, 0): every component is finite and within ATOL of 0
allclose0(a) == \A c \in 1..3 : a[c].k = "fin" /\ FLe(FAbs(a[c]), ATOL)

allfinite(a) == \A c \in 1..3 : isfinite(a[c])

\* (a variant of validate_input that omits its third check)
validate_input_unchecked(rr, vv) ==
    IF allclose0(rr) THEN "Position vector cannot be zero."
    ELSE IF allclose0(vv) THEN "Velocity vector cannot be zero."
    ELSE "ok"

\* the message of the ValueError raised, or "ok"
validate_input(rr, vv) ==
    IF allclose0(rr) THEN "Position vector cannot be zero."
    ELSE IF allclose0(vv) THEN "Velocity vector cannot be zero."
    ELSE IF ~allfinite(rr) \/ ~allfinite(vv)
         THEN "Position and velocity must contain finite numbers."
    ELSE "ok"

(***************************************************************************)
(* calculate: the element formulas                                         *)
(***************************************************************************)
\* Inclination
i_of(hv, h) == degrees(safe_arccos(FDiv(hv[3], h)))

\* RAAN
RAAN_of(nv, n) ==
    IF ~IsZero(n)
    THEN LET raan == degrees(safe_arccos(FDiv(nv[1], n)))
         IN IF FLt(nv[2], Zero) THEN Sub360(raan) ELSE raan
    ELSE NaN

\* Eccentricity vector
e_vec_of(rr, vv, gm, r_norm, v_norm) ==
    scale(FDiv(One, gm),
          vsub(scale(FSub(FMul(v_norm, v_norm), FDiv(gm, r_norm)), rr),
               scale(dot(rr, vv), vv)))

\* Argument of perigee
omega_of(nv, n, ev, e) ==
    IF ~IsZero(n) /\ FGt(e, ECC_TOL)
    THEN LET om == degrees(arccos(FDiv(dot(nv, ev), FMul(n, e))))
         IN IF FLt(ev[3], Zero) THEN Sub360(om) ELSE om
    ELSE NaN

\* (a variant of nu_of whose circular branch reuses the elliptical sign test)
nu_of_one_test(rr, vv, r_norm, nv, n, ev, e) ==
    IF FGt(e, ECC_TOL)
    THEN LET nu == degrees(safe_arccos(FDiv(dot(ev, rr), FMul(e, r_norm))))
         IN IF FLt(dot(rr, vv), Zero) THEN Sub360(nu) ELSE nu
    ELSE IF ~IsZero(n)
         THEN LET nu == degrees(safe_arccos(FDiv(dot(nv, rr), FMul(n, r_norm))))
              IN IF FLt(dot(rr, vv), Zero) THEN Sub360(nu) ELSE nu
         ELSE NaN

\* True anomaly
nu_of(rr, vv, r_norm, nv, n, ev, e) ==
    IF FGt(e, ECC_TOL)
    THEN LET nu == degrees(safe_arccos(FDiv(dot(ev, rr), FMul(e, r_norm))))
         IN IF FLt(dot(rr, vv), Zero) THEN Sub360(nu) ELSE nu
    ELSE IF ~IsZero(n)
         THEN LET nu == degrees(safe_arccos(FDiv(dot(nv, rr), FMul(n, r_norm))))
              IN IF FLt(rr[3], Zero) THEN Sub360(nu) ELSE nu
         ELSE NaN

energy_of(gm, r_norm, v_norm) ==
    FSub(FDiv(FMul(v_norm, v_norm), Two), FDiv(gm, r_norm))

\* (a variant of a_of that tests the energy against 0 exactly)
a_of_exact(gm, energy) ==
    IF ~IsZero(energy)
    THEN FDiv(FNeg(gm), FMul(Two, energy))
    ELSE Inf(1)

\* Semi-major axis
a_of(gm, energy) ==
    IF FGt(FAbs(energy), ENERGY_TOL)
    THEN FDiv(FNeg(gm), FMul(Two, energy))
    ELSE Inf(1)

\* The local variables of calculate() when it reaches its return.
calculate_locals(rr, vv, gm) ==
    LET r_norm == norm(rr)
        v_norm == norm(vv)
        h_vec  == cross(rr, vv)
        h      == norm(h_vec)
        n_vec  == cross(k_hat, h_vec)
        n      == norm(n_vec)
        e_vec  == e_vec_of(rr, vv, gm, r_norm, v_norm)
        e      == norm(e_vec)
        energy == energy_of(gm, r_norm, v_norm)
    IN [ r_norm |-> r_norm, v_norm |-> v_norm, h_vec |-> h_vec, h |-> h,
         i |-> i_of(h_vec, h), n_vec |-> n_vec, n |-> n,
         RAAN |-> RAAN_of(n_vec, n), e_vec |-> e_vec, e |-> e,
         omega |-> omega_of(n_vec, n, e_vec, e),
         nu |-> nu_of(rr, vv, r_norm, n_vec, n, e_vec, e),
         rv |-> dot(rr, vv), rz |-> rr[3],
         energy |-> energy, a |-> a_of(gm, energy) ]

\* The dict assigned to self.coe: float() of each element.
coe_dict(l) ==
    [ h |-> l.h, a |-> l.a, i |-> l.i, RAAN |-> l.RAAN, e |-> l.e,
      omega |-> l.omega, nu |-> l.nu ]


\* round(x, 2) of a dict value: a finite number becomes its count of
\* hundredths (kind "cent"), rounded half to even; NaN and the infinities
\* stay; an angle stays the angle of its cosine, marked as rounded, except at
\* the exact angles 0, 90, 180, 270 and 360.
round2(a) ==
    IF a.k \in {"nan", "inf"} THEN a
    ELSE IF a.k = "fin"
    THEN IF a.m = 0 THEN [k |-> "cent", s |-> 1, m |-> 0, x |-> 0]
         ELSE IF a.x > 10 THEN a      \* a large integer is its own rounding
         ELSE IF a.x >= 0
         THEN [k |-> "cent", s |-> a.s, m |-> a.m * 2^(a.x) * 100, x |-> 0]
         ELSE IF -(a.x) > MantBits + 8
         THEN [k |-> "cent", s |-> 1, m |-> 0, x |-> 0]
         ELSE LET num  == a.m * 100
                  den  == 2^(-(a.x))
                  q    == num \div den
                  rem2 == 2 * (num % den)
                  q2   == IF rem2 > den \/ (rem2 = den /\ q % 2 = 1)
                          THEN q + 1 ELSE q
              IN [k |-> "cent", s |-> IF q2 = 0 THEN 1 ELSE a.s,
                  m |-> q2, x |-> 0]
    ELSE IF a.m = 0
    THEN [k |-> "cent", s |-> 1, m |-> IF a.k = "acos" THEN 9000 ELSE 27000,
          x |-> 0]
    ELSE IF a.m = One.m /\ a.x = One.x
    THEN [k |-> "cent", s |-> 1,
          m |-> IF a.s = -1 THEN 18000 ELSE IF a.k = "acos" THEN 0 ELSE 36000,
          x |-> 0]
    ELSE [a EXCEPT !.k = IF a.k = "acos" THEN "acos.2f" ELSE "racos.2f"]

\* The rounded copy assigned to self.coe_display.
display_dict(d) ==
    [ h |-> round2(d.h), a |-> round2(d.a), i |-> round2(d.i),
      RAAN |-> round2(d.RAAN), e |-> round2(d.e),
      omega |-> round2(d.omega), nu |-> round2(d.nu) ]

(***************************************************************************)
(* The inputs of a run.                                                    *)
(***************************************************************************)
\* 2^-26, about 1.5e-8: just above np.allclose's tolerance
Tiny == Pow2(1, -26)

\* components of position vectors
RComp == { FromInt(-1), Zero, One }

\* components of velocity vectors
VComp == { Zero, One, Two, FNeg(Tiny) }

\* components that are not finite
BadComp == { NaN, Inf(1), Inf(-1) }

\* vectors with one component that is not finite
BadVecs ==
    { [c \in 1..3 |-> IF c = p THEN b ELSE IF c < p THEN lo ELSE hi] :
        p \in 1..3, b \in BadComp, lo \in {Zero, One}, hi \in {Zero, One} }

Vec(S) == { << x, y, z >> : x \in S, y \in S, z \in S }

Positions == Vec(RComp) \cup BadVecs

Velocities == Vec(VComp) \cup BadVecs

\* gravitational parameters: 0, 2, 4 and 2^-52
Mus == { Zero, Two, FromInt(4), Pow2(1, -52) }

\* the inputs of the runs with two objects
Positions2 == Vec({ Zero, One })

Velocities2 == Vec({ Zero, One, Two })

Mus2 == { Zero, Two }

Objs == { 1, 2 }

Filenames == { "coe_output.yaml" }

(***************************************************************************)
(* State.                                                                  *)
(***************************************************************************)
VARIABLES
    position, velocity, gm,  \* the caller's arguments (config.yaml)
    status,       \* per object: "none" (not built), "ok", "failed" (init raised)
    r, v, mu,     \* per object: self.r, self.v, self.mu
    coe,          \* per object: self.coe, 0 for None, else a dict of heap
    coe_display,  \* per object: <<>> while the attribute is unset, else <<d>>
    heap,         \* the dicts calculate() has built, in order of creation
    locals,       \* locals[k]: calculate's local variables when it built heap[k]
    owner,        \* owner[k]: the object whose calculate() built heap[k]
    stdout,       \* what the last successful print wrote
    files,        \* per file name: <<>> while absent, else <<the dict dumped>>
    exc           \* the exception the last call raised, "none" if it returned

vars == << position, velocity, gm, status, r, v, mu, coe, coe_display, heap,
           locals, owner, stdout, files, exc >>

NoVec == << >>

InitWith(P, V, M) ==
    /\ position \in P
    /\ velocity \in V
    /\ gm \in M
    /\ status = [o \in Objs |-> "none"]
    /\ r = [o \in Objs |-> NoVec]
    /\ v = [o \in Objs |-> NoVec]
    /\ mu = [o \in Objs |-> << >>]
    /\ coe = [o \in Objs |-> 0]
    /\ coe_display = [o \in Objs |-> << >>]
    /\ heap = << >>
    /\ locals = << >>
    /\ owner = << >>
    /\ stdout = [last |-> "", table |-> << >>]
    /\ files = [f \in Filenames |-> << >>]
    /\ exc = "none"

Init == InitWith(Positions, Velocities, Mus)

Init2 == InitWith(Positions2, Velocities2, Mus2)

(***************************************************************************)
(* __init__: the fields are set, then the input is validated.  When        *)
(* validation raises, the constructor call raises and its caller holds no  *)
(* object: no method is ever called on it.                                 *)
(***************************************************************************)
Construct(o) ==
    /\ status[o] = "none"
    /\ r' = [r EXCEPT ![o] = position]
    /\ v' = [v EXCEPT ![o] = velocity]
    /\ mu' = [mu EXCEPT ![o] = << gm >>]
    /\ coe' = [coe EXCEPT ![o] = 0]
    /\ LET res == validate_input(position, velocity)
       IN /\ status' = [status EXCEPT ![o] = IF res = "ok" THEN "ok" ELSE "failed"]
          /\ exc' = IF res = "ok" THEN "none" ELSE "ValueError"
    /\ UNCHANGED << position, velocity, gm, coe_display, heap, locals, owner,
                    stdout, files >>

(***************************************************************************)
(* calculate.  1/mu is a division of Python floats: it raises              *)
(* ZeroDivisionError when mu is 0, before self.coe is assigned.  Every     *)
(* call that returns has built a new dict; the caller keeps the dicts      *)
(* returned to it (heap).  bound is the number of calls a run explores.    *)
(***************************************************************************)
\* (a variant of calculate with hidden state: once a rounded copy exists,
\* the record is built from it)
CalculateFromDisplay(o, bound) ==
    /\ status[o] = "ok"
    /\ Len(heap) < bound
    /\ IF IsZero(mu[o][1])
       THEN /\ exc' = "ZeroDivisionError"
            /\ UNCHANGED << coe, coe_display, heap, locals, owner >>
       ELSE \E l \in { calculate_locals(r[o], v[o], mu[o][1]) } :
            \E d \in { IF coe_display[o] # << >> THEN coe_display[o][1].d
                                                 ELSE coe_dict(l) } :
               /\ heap' = Append(heap, d)
               /\ locals' = Append(locals, l)
               /\ owner' = Append(owner, o)
               /\ coe' = [coe EXCEPT ![o] = Len(heap) + 1]
               /\ coe_display' = [coe_display EXCEPT ![o] =
                                    << [call |-> Len(heap) + 1,
                                        d |-> display_dict(d)] >>]
               /\ exc' = "none"
    /\ UNCHANGED << position, velocity, gm, status, r, v, mu, stdout, files >>

\* (a variant of calculate that normalises self.r in place: r /= r_norm)
CalculateNormalizing(o, bound) ==
    /\ status[o] = "ok"
    /\ Len(heap) < bound
    /\ IF IsZero(mu[o][1])
       THEN /\ exc' = "ZeroDivisionError"
            /\ UNCHANGED << coe, coe_display, heap, locals, owner, r >>
       ELSE \E l \in { calculate_locals(r[o], v[o], mu[o][1]) } :
            \E d \in { coe_dict(l) } :
               /\ heap' = Append(heap, d)
               /\ locals' = Append(locals, l)
               /\ owner' = Append(owner, o)
               /\ coe' = [coe EXCEPT ![o] = Len(heap) + 1]
               /\ coe_display' = [coe_display EXCEPT ![o] =
                                    << [call |-> Len(heap) + 1,
                                        d |-> display_dict(d)] >>]
               /\ r' = [r EXCEPT ![o] = << FDiv(r[o][1], l.r_norm),
                                           FDiv(r[o][2], l.r_norm),
                                           FDiv(r[o][3], l.r_norm) >>]
               /\ exc' = "none"
    /\ UNCHANGED << position, velocity, gm, status, v, mu, stdout, files >>

\* (a variant of calculate that builds the rounded copy only once)
CalculateKeepDisplay(o, bound) ==
    /\ status[o] = "ok"
    /\ Len(heap) < bound
    /\ IF IsZero(mu[o][1])
       THEN /\ exc' = "ZeroDivisionError"
            /\ UNCHANGED << coe, coe_display, heap, locals, owner >>
       ELSE \E l \in { calculate_locals(r[o], v[o], mu[o][1]) } :
            \E d \in { coe_dict(l) } :
               /\ heap' = Append(heap, d)
               /\ locals' = Append(locals, l)
               /\ owner' = Append(owner, o)
               /\ coe' = [coe EXCEPT ![o] = Len(heap) + 1]
               /\ coe_display' = IF coe_display[o] # << >> THEN coe_display
                                 ELSE [coe_display EXCEPT ![o] =
                                         << [call |-> Len(heap) + 1,
                                             d |-> display_dict(d)] >>]
               /\ exc' = "none"
    /\ UNCHANGED << position, velocity, gm, status, r, v, mu, stdout, files >>

Calculate(o, bound) ==
    /\ status[o] = "ok"
    /\ Len(heap) < bound
    /\ IF IsZero(mu[o][1])
       THEN /\ exc' = "ZeroDivisionError"
            /\ UNCHANGED << coe, coe_display, heap, locals, owner >>
       ELSE \E l \in { calculate_locals(r[o], v[o], mu[o][1]) } :
            \E d \in { coe_dict(l) } :
               /\ heap' = Append(heap, d)
               /\ locals' = Append(locals, l)
               /\ owner' = Append(owner, o)
               /\ coe' = [coe EXCEPT ![o] = Len(heap) + 1]
               /\ coe_display' = [coe_display EXCEPT ![o] =
                                    << [call |-> Len(heap) + 1,
                                        d |-> display_dict(d)] >>]
               /\ exc' = "none"
    /\ UNCHANGED << position, velocity, gm, status, r, v, mu, stdout, files >>

(***************************************************************************)
(* summary: the table of the rounded copy is printed.                      *)
(***************************************************************************)
Summary(o) ==
    /\ status[o] = "ok"
    /\ IF coe[o] = 0
       THEN /\ exc' = "RuntimeError"
            /\ UNCHANGED stdout
       ELSE /\ stdout' = [last |-> "table", table |-> << coe_display[o][1].d >>]
            /\ exc' = "none"
    /\ UNCHANGED << position, velocity, gm, status, r, v, mu, coe,
                    coe_display, heap, locals, owner, files >>

(***************************************************************************)
(* save_to_yaml: the full-precision dict is dumped to the file, and a      *)
(* line is printed.  The file system takes every write.                    *)
(***************************************************************************)
SaveToYaml(o, filename) ==
    /\ status[o] = "ok"
    /\ IF coe[o] = 0
       THEN /\ exc' = "RuntimeError"
            /\ UNCHANGED << stdout, files >>
       ELSE /\ files' = [files EXCEPT ![filename] = << heap[coe[o]] >>]
            /\ stdout' = [stdout EXCEPT !.last = "saved"]
            /\ exc' = "none"
    /\ UNCHANGED << position, velocity, gm, status, r, v, mu, coe,
                    coe_display, heap, locals, owner >>

\* One object, built from any of the inputs.
Next ==
    \/ Construct(1)
    \/ Calculate(1, MaxCalls)
    \/ Summary(1)
    \/ \E f \in Filenames : SaveToYaml(1, f)

Spec == Init /\ [][Next]_vars

\* Two objects built from the same input.
Next2 ==
    \/ \E o \in Objs : Construct(o)
    \/ \E o \in Objs : Calculate(o, MaxCalls2)
    \/ \E o \in Objs : Summary(o)
    \/ \E o \in Objs, f \in Filenames : SaveToYaml(o, f)

Spec2 == Init2 /\ [][Next2]_vars

(***************************************************************************)
(* Properties.  rec(k) is the k-th record calculate returned and loc(k)    *)
(* the local variables of the call that built it.                          *)
(***************************************************************************)
Records == DOMAIN heap

Undefined(x) == x.k = "nan"

FiniteNumber(x) == x.k \in {"fin", "acos", "racos"}

NonDegenerate(l) == ~IsZero(l.n) /\ FGt(l.e, ECC_TOL)

ZeroVector(a) == \A c \in 1..3 : IsZero(a[c])

NonFinite(a) == \E c \in 1..3 : a[c].k \in {"nan", "inf"}

Completed(o) == \E k \in DOMAIN owner : owner[k] = o

\* C1: every record follows the degenerate-case table: RAAN is undefined
\* exactly when n = 0, omega is defined exactly when n # 0 and e > 1e-8, nu
\* is undefined exactly when n = 0 and e <= 1e-8.
C1_DegenerateTable ==
    \A k \in Records :
        /\ Undefined(heap[k].RAAN) <=> IsZero(locals[k].n)
        /\ ~Undefined(heap[k].omega) <=> NonDegenerate(locals[k])
        /\ Undefined(heap[k].nu) <=>
              (IsZero(locals[k].n) /\ FLe(locals[k].e, ECC_TOL))

\* C2: an object built from a zero position, a zero velocity or a vector
\* with a NaN or infinite component fails its construction with ValueError,
\* and no calculate ever runs on it: it owns no record and holds none.
C2_InvalidRejected ==
    \A o \in Objs :
        (/\ status[o] # "none"
         /\ \/ ZeroVector(position) \/ ZeroVector(velocity)
            \/ NonFinite(position) \/ NonFinite(velocity))
        => /\ status[o] = "failed"
           /\ exc = "ValueError"
           /\ coe[o] = 0
           /\ ~Completed(o)

\* an infinite velocity component was rejected
C2_Witness ==
    /\ status[1] = "failed"
    /\ exc = "ValueError"
    /\ ~NonFinite(position)
    /\ \E c \in 1..3 : velocity[c].k = "inf"

\* C3: in every record h, i and e are finite numbers and a is finite or
\* +infinity; only RAAN, omega and nu can be undefined.
C3_FieldsFinite ==
    \A k \in Records :
        /\ IsFin(heap[k].h)
        /\ FiniteNumber(heap[k].i)
        /\ IsFin(heap[k].e)
        /\ IsFin(heap[k].a) \/ heap[k].a = Inf(1)

\* C4: when n # 0 and e > 1e-8, all seven fields of the record are finite.
C4_NonDegenerateFinite ==
    \A k \in Records :
        NonDegenerate(locals[k])
        => /\ FiniteNumber(heap[k].h)
           /\ FiniteNumber(heap[k].a)
           /\ FiniteNumber(heap[k].i)
           /\ FiniteNumber(heap[k].RAAN)
           /\ FiniteNumber(heap[k].e)
           /\ FiniteNumber(heap[k].omega)
           /\ FiniteNumber(heap[k].nu)

\* C5: each of RAAN, omega and nu that is defined is an angle below 360
\* degrees, and the inclination is an angle out of arccos, in [0, 180].
C5_AngleRanges ==
    \A k \in Records :
        /\ \A x \in { heap[k].RAAN, heap[k].omega, heap[k].nu } :
              ~Undefined(x) => IsAngle(x) /\ ~Is360(x)
        /\ heap[k].i.k = "acos"

\* C6: every object of a run is built from the same (position, velocity,
\* mu); all the records their calculate calls returned, whatever was called
\* in between, have the same seven fields.
C6_Deterministic ==
    \A j \in Records : \A k \in Records : heap[j] = heap[k]

\* two objects have calculated, with a summary and a save before the second
\* calculate returned its record
C6_Witness ==
    /\ Len(heap) = 2
    /\ owner[1] # owner[2]
    /\ stdout.last = "saved"
    /\ stdout.table # << >>
    /\ files["coe_output.yaml"] = << heap[2] >>

\* C7: a is +infinity exactly when |energy| <= 1e-12, with energy =
\* v_norm^2/2 - mu/r_norm; otherwise it is -mu/(2 energy), positive for a
\* negative energy and negative for a positive one.
C7_SemiMajorAxis ==
    \A k \in Records :
        /\ locals[k].energy =
              FSub(FDiv(FMul(locals[k].v_norm, locals[k].v_norm), Two),
                   FDiv(gm, locals[k].r_norm))
        /\ heap[k].a = Inf(1) <=> FLe(FAbs(locals[k].energy), ENERGY_TOL)
        /\ heap[k].a # Inf(1) =>
              /\ heap[k].a = FDiv(FNeg(gm), FMul(Two, locals[k].energy))
              /\ FLt(locals[k].energy, Zero) => FGt(heap[k].a, Zero)
              /\ FGt(locals[k].energy, Zero) => FLt(heap[k].a, Zero)

\* an inclined, eccentric orbit whose energy is not 0 but within the cutoff
C7_Witness ==
    \E k \in Records :
        /\ heap[k].a = Inf(1)
        /\ ~IsZero(locals[k].energy)
        /\ NonDegenerate(locals[k])

\* C8: no call changes self.r, self.v or self.mu of a constructed object,
\* which stay the constructor's arguments; no call changes a record already
\* returned; a calculate that returns stores a record that did not exist.
C8_InputsAndRecordsKept ==
    /\ [][ /\ \A o \in Objs :
                status[o] # "none" =>
                    r'[o] = r[o] /\ v'[o] = v[o] /\ mu'[o] = mu[o]
           /\ \A k \in Records : k \in DOMAIN heap' /\ heap'[k] = heap[k]
           /\ \A o \in Objs :
                coe'[o] # coe[o] =>
                    coe'[o] \notin Records /\ coe'[o] \in DOMAIN heap'
         ]_vars
    /\ [](\A o \in Objs :
            status[o] # "none" =>
                r[o] = position /\ v[o] = velocity /\ mu[o] = << gm >>)

\* one object has calculated twice, and printed and saved, on a position
\* that is not a unit vector
C8_Witness ==
    /\ Len(heap) = 2
    /\ owner[1] = owner[2]
    /\ coe[owner[1]] = 2
    /\ locals[1].r_norm # One
    /\ r[owner[1]] = position
    /\ stdout.last = "saved"

\* C9: each angle is 360 minus its arccos value exactly when its own sign
\* test is negative, and the arccos value otherwise: RAAN by n_vec.y, omega
\* by e_vec.z, nu by r.v when e > 1e-8 (whatever n is) and by r.z when
\* e <= 1e-8 and n # 0.
C9_QuadrantCorrection ==
    \A k \in Records :
        LET l == locals[k]
            Corrected(test, base) == IF FLt(test, Zero) THEN Sub360(base) ELSE base
        IN /\ ~IsZero(l.n) =>
                heap[k].RAAN =
                   Corrected(l.n_vec[2],
                             degrees(safe_arccos(FDiv(l.n_vec[1], l.n))))
           /\ NonDegenerate(l) =>
                heap[k].omega =
                   Corrected(l.e_vec[3],
                             degrees(arccos(FDiv(dot(l.n_vec, l.e_vec),
                                                 FMul(l.n, l.e)))))
           /\ FGt(l.e, ECC_TOL) =>
                heap[k].nu =
                   Corrected(dot(position, velocity),
                             degrees(safe_arccos(FDiv(dot(l.e_vec, position),
                                                      FMul(l.e, l.r_norm)))))
           /\ (FLe(l.e, ECC_TOL) /\ ~IsZero(l.n)) =>
                heap[k].nu =
                   Corrected(position[3],
                             degrees(safe_arccos(FDiv(dot(l.n_vec, position),
                                                      FMul(l.n, l.r_norm)))))

\* a circular inclined orbit below the reference plane: nu is reflected by
\* r.z although r.v is not negative
C9_Witness ==
    \E k \in Records :
        /\ FLe(locals[k].e, ECC_TOL)
        /\ ~IsZero(locals[k].n)
        /\ FLt(position[3], Zero)
        /\ ~FLt(dot(position, velocity), Zero)
        /\ heap[k].nu.k = "racos"

\* C10: on a constructed object, while no calculate has returned, summary
\* and save_to_yaml raise RuntimeError and change nothing; once one has
\* returned they succeed, printing the rounded copy and writing the record;
\* the rounded copy is always the rounding of the record self.coe holds,
\* made by the call that returned it.
C10_NotYetCalculated ==
    /\ [][ \A o \in Objs :
             /\ (Summary(o) \/ \E f \in Filenames : SaveToYaml(o, f)) =>
                   IF Completed(o)
                   THEN exc' = "none"
                   ELSE /\ exc' = "RuntimeError"
                        /\ UNCHANGED << r, v, mu, coe, coe_display, heap,
                                        stdout, files >>
             /\ (Summary(o) /\ Completed(o)) =>
                   stdout' = [last |-> "table",
                              table |-> << display_dict(heap[coe[o]]) >>]
             /\ \A f \in Filenames :
                   (SaveToYaml(o, f) /\ Completed(o)) =>
                       files'[f] = << heap[coe[o]] >> /\ stdout'.last = "saved"
         ]_vars
    /\ [](\A o \in Objs :
            /\ Completed(o) <=> coe[o] # 0
            /\ coe[o] = 0 => coe_display[o] = << >>
            /\ coe[o] # 0 =>
                  /\ coe_display[o] # << >>
                  /\ coe_display[o][1].call = coe[o]
                  /\ coe_display[o][1].d = display_dict(heap[coe[o]])
                  /\ owner[coe[o]] = o)

\* object 1 has calculated twice and printed its table; object 2, which has
\* not calculated, has just been refused
C10_Witness ==
    /\ Completed(1)
    /\ coe[1] = 2
    /\ stdout.last = "table"
    /\ status[2] = "ok"
    /\ ~Completed(2)
    /\ exc = "RuntimeError"

====
